---- MODULE Spec2Model ----
(***************************************************************************)
(* Loan analytics pipeline: the bronze -> silver Normalizer                *)
(* (lambda_transform_bronze_to_silver/lambda-function.py) and the          *)
(* silver -> gold Aggregator                                               *)
(* (lambda_transform_silver_to_gold/lambda-function.py).                   *)
(*                                                                         *)
(* A dataframe is a sequence of rows (records).  A cell read from CSV is   *)
(* a number, a missing value (NaN: an empty field or one of pandas' NA     *)
(* markers) or some other text.  Columns the code only carries through     *)
(* (Name, Contact_Number, Email, Risk_Level, Loan_Type, Due_Date,          *)
(* Payment_Status, Last_Payment_Date) are represented by Region and        *)
(* Account_Type, which travel the same way.  Amounts are whole numbers.    *)
(*                                                                         *)
(* An invocation is one step.  A call to an external service that can fail *)
(* does so by the choice of a fault; an uncaught exception ends the        *)
(* invocation and leaves what was written before it.                       *)
(***************************************************************************)
EXTENDS Integers, Sequences, FiniteSets

VARIABLES
    normEnv,      \* environment variable names set for the Normalizer
    aggEnv,       \* environment variable names set for the Aggregator
    bronze,       \* the raw CSV under the bronze prefix: a sequence of rows
    silver,       \* table name -> sequence of objects under the silver prefix
    catalog,      \* table names registered in the Athena database
    gold,         \* the object Gold/region_summary/data.parquet
    rdsTable,     \* does relational table 'customer' exist (committed DDL)
    rdsRows,      \* committed rows of relational table 'customer'
    normResult,   \* outcome of the last Normalizer invocation
    aggResult,    \* outcome of the last Aggregator invocation
    normRuns,     \* Normalizer invocations so far
    normOk,       \* Normalizer invocations that returned Success
    aggRuns,      \* Aggregator invocations so far
    aggOk         \* Aggregator invocations that returned Success

vars == <<normEnv, aggEnv, bronze, silver, catalog, gold, rdsTable, rdsRows,
          normResult, aggResult, normRuns, normOk, aggRuns, aggOk>>

(***************************************************************************)
(* Bounds                                                                  *)
(***************************************************************************)
MaxRows == 2       \* rows of a bronze input
MaxNormRuns == 2   \* Normalizer invocations
MaxAggRuns == 2    \* Aggregator invocations
MaxFrags == 1      \* objects per silver prefix in a pre-populated store

(***************************************************************************)
(* Cells and values                                                        *)
(***************************************************************************)
Num(n) == [k |-> "num", v |-> n]
NaN == [k |-> "nan", v |-> 0]
Text == [k |-> "str", v |-> 0]

NullRegion == "<NA>"                 \* a missing Region
Regions == <<"North", "South">>      \* region names in sort order

SeqsUpTo(n, S) == UNION {[1..m -> S] : m \in 0..n}

RECURSIVE SumSeq(_)
SumSeq(s) == IF s = <<>> THEN 0 ELSE Head(s) + SumSeq(Tail(s))

(***************************************************************************)
(* Normalizer                                                              *)
(***************************************************************************)
NormRequired == {"BUCKET_NAME", "BRONZE_PREFIX", "SILVER_PREFIX"}
NormEnvNames == NormRequired \cup {"ATHENA_DATABASE"}

\* Mutant: every name read with os.environ.get, so import never fails.
NormConfigLenient(env) == TRUE

\* os.environ[...] at import raises KeyError for an absent name;
\* ATHENA_DATABASE is read with a default.
NormConfigOk(env) == NormRequired \subseteq env

\* Series.astype(float): NaN stays NaN, other text raises ValueError.
FloatOk(c) == c.k \in {"num", "nan"}
\* Mutant: a nullable integer type that accepts a missing value.
IntOkNullable(c) == c.k \in {"num", "nan"}

\* Series.astype(int): NaN and other text raise ValueError.
IntOk(c) == c.k = "num"

CoerceOk(df) ==
    \A i \in DOMAIN df :
        /\ FloatOk(df[i].Loan_Amount)
        /\ FloatOk(df[i].Outstanding_Amount)
        /\ FloatOk(df[i].EMI_Amount)
        /\ IntOk(df[i].Payment_Delay_Days)
        /\ IntOk(df[i].Customer_Score)

\* After astype the integer columns hold plain integers.
Coerce(df) ==
    [i \in DOMAIN df |->
        [df[i] EXCEPT !.Payment_Delay_Days = df[i].Payment_Delay_Days.v,
                      !.Customer_Score = df[i].Customer_Score.v]]

\* Mutant: the filter keeps a zero amount (>= 0).
LoanNonNegative(r) == r.Loan_Amount.k = "num" /\ r.Loan_Amount.v >= 0

\* df["Loan_Amount"] > 0 is False for NaN.
LoanPositive(r) == r.Loan_Amount.k = "num" /\ r.Loan_Amount.v > 0

FilterRows(df) == SelectSeq(df, LoanPositive)

OnTimeFlag(x) == IF x = 0 THEN "Yes" ELSE "No"

\* Mutant: the upper threshold excludes 10.
PaymentBehaviorStrict(x) ==
    IF x = 0 THEN "Good" ELSE (IF x < 10 THEN "Average" ELSE "Delayed")

PaymentBehavior(x) ==
    IF x = 0 THEN "Good" ELSE (IF x <= 10 THEN "Average" ELSE "Delayed")

Derive(df) ==
    [i \in DOMAIN df |->
        [Customer_ID |-> df[i].Customer_ID,
         Region |-> df[i].Region,
         Customer_Score |-> df[i].Customer_Score,
         Account_Number |-> df[i].Account_Number,
         Account_Type |-> df[i].Account_Type,
         Loan_Amount |-> df[i].Loan_Amount,
         Outstanding_Amount |-> df[i].Outstanding_Amount,
         EMI_Amount |-> df[i].EMI_Amount,
         Payment_Delay_Days |-> df[i].Payment_Delay_Days,
         Payment_On_Time_Flag |-> OnTimeFlag(df[i].Payment_Delay_Days),
         Payment_Behavior |-> PaymentBehavior(df[i].Payment_Delay_Days)]]

CustomerCols(r) ==
    [Customer_ID |-> r.Customer_ID, Region |-> r.Region,
     Customer_Score |-> r.Customer_Score]

AccountCols(r) ==
    [Account_Number |-> r.Account_Number, Account_Type |-> r.Account_Type]

FactCols(r) ==
    [Customer_ID |-> r.Customer_ID,
     Account_Number |-> r.Account_Number,
     Loan_Amount |-> r.Loan_Amount,
     Outstanding_Amount |-> r.Outstanding_Amount,
     EMI_Amount |-> r.EMI_Amount,
     Payment_Delay_Days |-> r.Payment_Delay_Days,
     Payment_On_Time_Flag |-> r.Payment_On_Time_Flag,
     Payment_Behavior |-> r.Payment_Behavior]

\* Mutant: no de-duplication of the customer projection.
KeepDupCustomer(df) == [i \in DOMAIN df |-> [row |-> df[i], first |-> TRUE]]

\* DataFrame.drop_duplicates(subset=[key]) keeps the first row of each key.
DropDupCustomer(df) ==
    SelectSeq([i \in DOMAIN df |->
                  [row |-> df[i],
                   first |-> \A j \in 1..(i - 1) :
                                df[j].Customer_ID # df[i].Customer_ID]],
              LAMBDA e : e.first)

DropDupAccount(df) ==
    SelectSeq([i \in DOMAIN df |->
                  [row |-> df[i],
                   first |-> \A j \in 1..(i - 1) :
                                df[j].Account_Number # df[i].Account_Number]],
              LAMBDA e : e.first)

DimCustomer(df) ==
    LET p == [i \in DOMAIN df |-> CustomerCols(df[i])]
        d == DropDupCustomer(p)
    IN  [i \in DOMAIN d |-> d[i].row]

DimAccount(df) ==
    LET p == [i \in DOMAIN df |-> AccountCols(df[i])]
        d == DropDupAccount(p)
    IN  [i \in DOMAIN d |-> d[i].row]

FactLoanPayment(df) == [i \in DOMAIN df |-> FactCols(df[i])]

\* wr.s3.to_parquet(dataset=True) appends one .parquet object under the
\* table's prefix and registers the table.
ParquetObject(df) == [parquet |-> TRUE, rows |-> df]

\* Mutant: the write replaces what is under the prefix (mode="overwrite").
OverwriteObject(objs, df) == <<ParquetObject(df)>>

\* The default mode of a dataset write is "append".
AppendObject(objs, df) == Append(objs, ParquetObject(df))

EmptySilver ==
    [dim_customer |-> <<>>, dim_account |-> <<>>, fact_loan_payment |-> <<>>]

\* An external failure of a write call: the last one, which leaves the two
\* dimension tables written.
NormFaults == {"none", "write_fact"}

NormOutcome(status, error, io) == [status |-> status, error |-> error, io |-> io]

NoRun == [status |-> "none", error |-> "none", io |-> <<>>]

\* The whole invocation: module import, then lambda_handler.  The result
\* is the new silver store, the new catalog and the outcome.  Whether
\* to_parquet raises EmptyDataFrame for a dataframe without rows or writes
\* it depends on the library release in the build (refuseEmpty).
NormalizerInvoke(env, raw, store, cat, fault, refuseEmpty) ==
    IF ~NormConfigOk(env) THEN
        [silver |-> store, catalog |-> cat,
         result |-> NormOutcome("Failed", "KeyError", <<>>)]
    ELSE IF ~CoerceOk(raw) THEN
        [silver |-> store, catalog |-> cat,
         result |-> NormOutcome("Failed", "ValueError", <<"read_csv">>)]
    ELSE
        LET df == Derive(FilterRows(Coerce(raw)))
            dimc == DimCustomer(df)
            dima == DimAccount(df)
            fact == FactLoanPayment(df)
            s1 == [store EXCEPT !.dim_customer = AppendObject(@, dimc)]
            s2 == [s1 EXCEPT !.dim_account = AppendObject(@, dima)]
            s3 == [s2 EXCEPT !.fact_loan_payment = AppendObject(@, fact)]
        IN  IF df = <<>> /\ refuseEmpty THEN
                [silver |-> store, catalog |-> cat,
                 result |-> NormOutcome("Failed", "EmptyDataFrame",
                                        <<"read_csv">>)]
            ELSE IF fault = "write_fact" THEN
                [silver |-> s2,
                 catalog |-> cat \cup {"dim_customer", "dim_account"},
                 result |-> NormOutcome("Failed", "StorageWriteError",
                                <<"read_csv", "to_parquet:dim_customer",
                                  "to_parquet:dim_account">>)]
            ELSE
                [silver |-> s3,
                 catalog |-> cat \cup {"dim_customer", "dim_account",
                                       "fact_loan_payment"},
                 result |-> NormOutcome("Success", "none",
                                <<"read_csv", "to_parquet:dim_customer",
                                  "to_parquet:dim_account",
                                  "to_parquet:fact_loan_payment">>)]

NormalizerRun(limit) ==
    /\ normRuns < limit
    /\ \E fault \in NormFaults, refuseEmpty \in BOOLEAN :
          LET out == NormalizerInvoke(normEnv, bronze, silver, catalog, fault,
                                      refuseEmpty)
          IN  /\ silver' = out.silver
              /\ catalog' = out.catalog
              /\ normResult' = out.result
              /\ normOk' = IF out.result.status = "Success"
                           THEN normOk + 1 ELSE normOk
    /\ normRuns' = normRuns + 1
    /\ UNCHANGED <<normEnv, aggEnv, bronze, gold, rdsTable, rdsRows,
                   aggResult, aggRuns, aggOk>>

(***************************************************************************)
(* Aggregator                                                              *)
(***************************************************************************)
AggEnvNames ==
    {"BUCKET_NAME", "SILVER_PREFIX", "GOLD_PREFIX", "DB_SECRET_NAME", "DB_HOST"}

\* os.environ.get(...) never raises: an absent name reads as None, or as
\* its default for SILVER_PREFIX ("Silver/") and GOLD_PREFIX ("Gold/").
\* The defaults are the prefixes the deployment uses.
EnvGet(env, name) ==
    IF name \in env THEN "set"
    ELSE IF name \in {"SILVER_PREFIX", "GOLD_PREFIX"} THEN "default"
    ELSE "None"

\* df.columns = [c.lower() for c in df.columns]
LowerFact(r) ==
    [customer_id |-> r.Customer_ID,
     account_number |-> r.Account_Number,
     loan_amount |-> r.Loan_Amount,
     outstanding_amount |-> r.Outstanding_Amount,
     emi_amount |-> r.EMI_Amount,
     payment_delay_days |-> r.Payment_Delay_Days,
     payment_on_time_flag |-> r.Payment_On_Time_Flag,
     payment_behavior |-> r.Payment_Behavior]

LowerCustomer(r) ==
    [customer_id |-> r.Customer_ID, region |-> r.Region,
     customer_score |-> r.Customer_Score]

IsParquet(obj) == obj.parquet

RECURSIVE ConcatRows(_)
ConcatRows(objs) ==
    IF objs = <<>> THEN <<>> ELSE Head(objs).rows \o ConcatRows(Tail(objs))

\* Mutant: an empty folder reads as an empty table instead of raising.
read_parquet_folder_lenient(objs) ==
    [found |-> TRUE, rows |-> ConcatRows(SelectSeq(objs, IsParquet))]

\* read_parquet_folder_from_s3: found is FALSE when no key under the
\* prefix ends with ".parquet" (FileNotFoundError).
read_parquet_folder_from_s3(objs) ==
    LET dfs == SelectSeq(objs, IsParquet)
    IN  [found |-> dfs # <<>>, rows |-> ConcatRows(dfs)]

\* pd.merge(fact_df, customer_df, on="customer_id", how="left"): every fact
\* row once per customer row with its id, in order; a fact row with no
\* such customer row once, with missing customer columns.
JoinRow(f, region, score) ==
    [customer_id |-> f.customer_id,
     loan_amount |-> f.loan_amount,
     outstanding_amount |-> f.outstanding_amount,
     emi_amount |-> f.emi_amount,
     payment_delay_days |-> f.payment_delay_days,
     region |-> region,
     customer_score |-> score]

MatchesOf(f, customer_df) ==
    LET m == SelectSeq(customer_df, LAMBDA c : c.customer_id = f.customer_id)
    IN  IF m = <<>> THEN <<JoinRow(f, NullRegion, NaN)>>
        ELSE [i \in DOMAIN m |->
                 JoinRow(f, m[i].region, Num(m[i].customer_score))]

RECURSIVE MergeLeft(_, _)
MergeLeft(fact_df, customer_df) ==
    IF fact_df = <<>> THEN <<>>
    ELSE MatchesOf(Head(fact_df), customer_df)
             \o MergeLeft(Tail(fact_df), customer_df)

\* Series.sum() skips NaN.
FloatVal(c) == IF c.k = "num" THEN c.v ELSE 0

\* Mutant: groupby(..., dropna=False) keeps a group for the missing key.
GroupKeysKeepNull(merged_df) ==
    SelectSeq(Regions \o <<NullRegion>>,
              LAMBDA g : \E i \in DOMAIN merged_df : merged_df[i].region = g)

\* groupby("region") sorts the groups by key and drops rows whose key is
\* missing (dropna defaults to True).
GroupKeys(merged_df) ==
    SelectSeq(Regions, LAMBDA g : \E i \in DOMAIN merged_df :
                                      merged_df[i].region = g)

AggRow(merged_df, g) ==
    LET grp == SelectSeq(merged_df, LAMBDA r : r.region = g)
    IN  [region |-> g,
         total_loan_amount |->
             SumSeq([i \in DOMAIN grp |-> FloatVal(grp[i].loan_amount)]),
         total_outstanding_amount |->
             SumSeq([i \in DOMAIN grp |-> FloatVal(grp[i].outstanding_amount)]),
         total_emi_amount |->
             SumSeq([i \in DOMAIN grp |-> FloatVal(grp[i].emi_amount)]),
         avg_payment_delay |->
             [num |-> SumSeq([i \in DOMAIN grp |-> grp[i].payment_delay_days]),
              den |-> Len(grp)],
         customer_count |-> Len(grp)]

RegionSummary(merged_df) ==
    LET keys == GroupKeys(merged_df)
    IN  [i \in DOMAIN keys |-> AggRow(merged_df, keys[i])]

\* External failures: of the put of the gold object, of the database
\* connection, and of the COPY while it streams the rows.
AggFaults == {"none", "gold_write", "connect", "copy"}

AggOutcome(status, error, n, io) ==
    [status |-> status, error |-> error, record_count |-> n, io |-> io]

NoAggRun == [status |-> "none", error |-> "none", record_count |-> 0, io |-> <<>>]

NoGold == [present |-> FALSE, rows |-> <<>>]

\* write_parquet_to_s3: put_object replaces the object at the key.
write_parquet_to_s3(df) == [present |-> TRUE, rows |-> df]

\* Mutant: the load replaces the table's rows (truncate before copy).
ReplaceRows(rows, df) == df

\* COPY ... FROM STDIN appends the rows; they persist at conn.commit().
CopyRows(rows, df) == rows \o df

\* Mutant: an autocommit connection, where the rows streamed before the
\* COPY fails stay in the table.
load_df_autocommit(env, df, table, rows, fault) ==
    IF EnvGet(env, "DB_SECRET_NAME") = "None" THEN
        [table |-> table, rows |-> rows, error |-> "ParamValidationError",
         io |-> <<>>]
    ELSE IF fault = "connect" THEN
        [table |-> table, rows |-> rows, error |-> "DatabaseConnectionError",
         io |-> <<"get_secret_value">>]
    ELSE IF fault = "copy" THEN
        [table |-> TRUE, rows |-> rows \o SubSeq(df, 1, 1),
         error |-> "BulkLoadError",
         io |-> <<"get_secret_value", "connect", "create_table", "commit",
                  "copy">>]
    ELSE
        [table |-> TRUE, rows |-> CopyRows(rows, df), error |-> "none",
         io |-> <<"get_secret_value", "connect", "create_table", "commit",
                  "copy", "commit">>]

\* load_df_to_rds_copy.  With DB_HOST unset the connection goes to libpq's
\* default server, so whether it connects is the environment's choice, as
\* for any connection attempt.
load_df_to_rds_copy(env, df, table, rows, fault) ==
    IF EnvGet(env, "DB_SECRET_NAME") = "None" THEN
        [table |-> table, rows |-> rows, error |-> "ParamValidationError",
         io |-> <<>>]
    ELSE IF fault = "connect" THEN
        [table |-> table, rows |-> rows, error |-> "DatabaseConnectionError",
         io |-> <<"get_secret_value">>]
    ELSE IF fault = "copy" THEN
        [table |-> TRUE, rows |-> rows, error |-> "BulkLoadError",
         io |-> <<"get_secret_value", "connect", "create_table", "commit",
                  "copy">>]
    ELSE
        [table |-> TRUE, rows |-> CopyRows(rows, df), error |-> "none",
         io |-> <<"get_secret_value", "connect", "create_table", "commit",
                  "copy", "commit">>]

\* The whole invocation: module import, then lambda_handler.
AggregatorInvoke(env, store, g, table, rows, fault) ==
    LET same(err, io) ==
            [gold |-> g, table |-> table, rows |-> rows,
             result |-> AggOutcome("Failed", err, 0, io)]
        fact == read_parquet_folder_from_s3(store.fact_loan_payment)
        cust == read_parquet_folder_from_s3(store.dim_customer)
    IN  IF EnvGet(env, "BUCKET_NAME") = "None" THEN
            same("ParamValidationError", <<>>)
        ELSE IF ~fact.found THEN
            same("FileNotFoundError", <<"list:fact_loan_payment">>)
        ELSE IF ~cust.found THEN
            same("FileNotFoundError",
                 <<"list:fact_loan_payment", "list:dim_customer">>)
        ELSE
            LET fact_df == [i \in DOMAIN fact.rows |-> LowerFact(fact.rows[i])]
                customer_df ==
                    [i \in DOMAIN cust.rows |-> LowerCustomer(cust.rows[i])]
                agg_df == RegionSummary(MergeLeft(fact_df, customer_df))
                reads == <<"list:fact_loan_payment", "list:dim_customer">>
                load == load_df_to_rds_copy(env, agg_df, table, rows, fault)
            IN  IF fault = "gold_write" THEN
                    same("StorageWriteError", reads)
                ELSE IF load.error # "none" THEN
                    [gold |-> write_parquet_to_s3(agg_df),
                     table |-> load.table, rows |-> load.rows,
                     result |-> AggOutcome("Failed", load.error, 0,
                                    reads \o <<"put:region_summary">>
                                          \o load.io)]
                ELSE
                    [gold |-> write_parquet_to_s3(agg_df),
                     table |-> load.table, rows |-> load.rows,
                     result |-> AggOutcome("Success", "none", Len(agg_df),
                                    reads \o <<"put:region_summary">>
                                          \o load.io)]

AggregatorRun(limit) ==
    /\ aggRuns < limit
    /\ \E fault \in AggFaults :
          LET out == AggregatorInvoke(aggEnv, silver, gold, rdsTable, rdsRows,
                                      fault)
          IN  /\ gold' = out.gold
              /\ rdsTable' = out.table
              /\ rdsRows' = out.rows
              /\ aggResult' = out.result
              /\ aggOk' = IF out.result.status = "Success"
                          THEN aggOk + 1 ELSE aggOk
    /\ aggRuns' = aggRuns + 1
    /\ UNCHANGED <<normEnv, aggEnv, bronze, silver, catalog, normResult,
                   normRuns, normOk>>

\* Invocations arrive from outside, in any order.
Next == NormalizerRun(MaxNormRuns) \/ AggregatorRun(MaxAggRuns)

\* One invocation of each component.
NextOnce == NormalizerRun(1) \/ AggregatorRun(1)

\* Aggregator invocations over a silver store nobody writes to.
NextAgg == AggregatorRun(MaxAggRuns)

(***************************************************************************)
(* Initial states                                                          *)
(***************************************************************************)
RawRow(c, g, a, t, l, d) ==
    [Customer_ID |-> c, Region |-> g, Customer_Score |-> Num(700),
     Account_Number |-> a, Account_Type |-> t,
     Loan_Amount |-> l, Outstanding_Amount |-> Num(40), EMI_Amount |-> Num(10),
     Payment_Delay_Days |-> d]

\* Well-formed raw rows: two customers sharing one account number, loan
\* amounts on both sides of the filter, delays on both sides of each
\* threshold.  A row's region goes with the sign of its delay, so one
\* customer can appear with two regions.
LoanDelayPairs ==
    {<<100, 0>>, <<100, -1>>, <<200, 10>>, <<200, 11>>, <<0, 0>>, <<-50, 11>>}

WellFormedRow(c, p) ==
    RawRow(c, IF p[2] > 0 THEN "South" ELSE "North", 10,
           IF c = 1 THEN "Savings" ELSE "Current", Num(p[1]), Num(p[2]))

NormRows == {WellFormedRow(c, p) : c \in {1, 2}, p \in LoanDelayPairs}

\* Four of them for the runs of the whole pipeline.
PipeRows ==
    {WellFormedRow(1, <<100, 0>>), WellFormedRow(1, <<200, 11>>),
     WellFormedRow(2, <<200, 10>>), WellFormedRow(2, <<0, 0>>)}

\* Rows with one numeric cell missing or not a number.
NumericCols ==
    {"Loan_Amount", "Outstanding_Amount", "EMI_Amount", "Payment_Delay_Days",
     "Customer_Score"}

SetCell(r, col, c) ==
    [Customer_ID |-> r.Customer_ID, Region |-> r.Region,
     Customer_Score |-> IF col = "Customer_Score" THEN c ELSE r.Customer_Score,
     Account_Number |-> r.Account_Number, Account_Type |-> r.Account_Type,
     Loan_Amount |-> IF col = "Loan_Amount" THEN c ELSE r.Loan_Amount,
     Outstanding_Amount |->
         IF col = "Outstanding_Amount" THEN c ELSE r.Outstanding_Amount,
     EMI_Amount |-> IF col = "EMI_Amount" THEN c ELSE r.EMI_Amount,
     Payment_Delay_Days |->
         IF col = "Payment_Delay_Days" THEN c ELSE r.Payment_Delay_Days]

CoerceRows ==
    {WellFormedRow(1, <<100, 0>>), WellFormedRow(2, <<0, 0>>)}
        \cup {SetCell(WellFormedRow(1, <<100, 0>>), col, c) :
                 col \in NumericCols, c \in {NaN, Text}}

FullNormEnv == NormEnvNames
FullAggEnv == AggEnvNames

InitCommon ==
    /\ catalog = {}
    /\ gold = NoGold
    /\ rdsTable = FALSE
    /\ rdsRows = <<>>
    /\ normResult = NoRun
    /\ aggResult = NoAggRun
    /\ normRuns = 0
    /\ normOk = 0
    /\ aggRuns = 0
    /\ aggOk = 0

\* The pipeline from an empty silver store, fully configured.
Init ==
    /\ normEnv = FullNormEnv
    /\ aggEnv = FullAggEnv
    /\ bronze \in SeqsUpTo(MaxRows, PipeRows)
    /\ silver = EmptySilver
    /\ InitCommon

Spec == Init /\ [][Next]_vars

\* One Normalizer run over any well-formed input.
InitNorm ==
    /\ normEnv = FullNormEnv
    /\ aggEnv = FullAggEnv
    /\ bronze \in SeqsUpTo(MaxRows, NormRows)
    /\ silver = EmptySilver
    /\ InitCommon

SpecNorm == InitNorm /\ [][NextOnce]_vars

\* One Normalizer run over input with missing or non-numeric cells.
InitCoerce ==
    /\ normEnv = FullNormEnv
    /\ aggEnv = FullAggEnv
    /\ bronze \in SeqsUpTo(MaxRows, CoerceRows)
    /\ silver = EmptySilver
    /\ InitCommon

SpecCoerce == InitCoerce /\ [][NextOnce]_vars

\* Any configuration of the two components.
InitCfg ==
    /\ normEnv \in SUBSET NormEnvNames
    /\ aggEnv \in SUBSET AggEnvNames
    /\ bronze = <<WellFormedRow(1, <<100, 0>>)>>
    /\ silver = EmptySilver
    /\ InitCommon

SpecCfg == InitCfg /\ [][NextOnce]_vars

\* The Aggregator over a silver store found as it is: under each prefix
\* some parquet objects and possibly an object that is no parquet file.
StoredFact(c, l) ==
    FactLoanPayment(Derive(Coerce(
        <<RawRow(c, "North", 10, "Savings", Num(l), Num(0))>>)))[1]

StoredCustomer(c, g) == [Customer_ID |-> c, Region |-> g, Customer_Score |-> 700]

OtherObject == [parquet |-> FALSE, rows |-> <<>>]

FactObjects ==
    {OtherObject,
     ParquetObject(<<StoredFact(1, 100)>>),
     ParquetObject(<<StoredFact(3, 100)>>),
     ParquetObject(<<StoredFact(1, 100), StoredFact(2, 200)>>),
     ParquetObject(<<StoredFact(2, 200), StoredFact(3, 100)>>)}

CustomerObjects ==
    {OtherObject,
     ParquetObject(<<StoredCustomer(1, "North")>>),
     ParquetObject(<<StoredCustomer(1, "North"), StoredCustomer(2, "South")>>),
     ParquetObject(<<StoredCustomer(2, "North"), StoredCustomer(1, NullRegion)>>),
     ParquetObject(<<StoredCustomer(1, "South"), StoredCustomer(2, "South")>>)}

InitAgg ==
    /\ normEnv = FullNormEnv
    /\ aggEnv = FullAggEnv
    /\ bronze = <<>>
    /\ silver \in {[dim_customer |-> c, dim_account |-> <<>>,
                    fact_loan_payment |-> f] :
                      c \in SeqsUpTo(MaxFrags, CustomerObjects),
                      f \in SeqsUpTo(MaxFrags, FactObjects)}
    /\ InitCommon

SpecAgg == InitAgg /\ [][NextAgg]_vars

(***************************************************************************)
(* Properties                                                              *)
(***************************************************************************)
\* What is stored under each silver prefix, all objects together.
StoredFacts == ConcatRows(silver.fact_loan_payment)
StoredCustomers == ConcatRows(silver.dim_customer)
StoredAccounts == ConcatRows(silver.dim_account)

Behaviors == {"Good", "Average", "Delayed"}

\* C1 as stated: for every retained row payment_behavior is one of Good,
\* Average, Delayed, with Good iff delay = 0, Average iff 0 < delay <= 10
\* and Delayed iff delay > 10, negative delays included.
C1_AsStated ==
    \A i \in DOMAIN StoredFacts :
        LET b == StoredFacts[i].Payment_Behavior
            d == StoredFacts[i].Payment_Delay_Days
        IN  /\ b \in Behaviors
            /\ (b = "Good") <=> (d = 0)
            /\ (b = "Average") <=> (0 < d /\ d <= 10)
            /\ (b = "Delayed") <=> (d > 10)

\* C1 amended: for every retained row payment_behavior is one of Good,
\* Average, Delayed, with Good iff delay = 0, Average iff delay <= 10 and
\* delay # 0 (so every negative delay is Average), Delayed iff delay > 10.
C1_PaymentBehavior ==
    \A i \in DOMAIN StoredFacts :
        LET b == StoredFacts[i].Payment_Behavior
            d == StoredFacts[i].Payment_Delay_Days
        IN  /\ b \in Behaviors
            /\ (b = "Good") <=> (d = 0)
            /\ (b = "Average") <=> (d # 0 /\ d <= 10)
            /\ (b = "Delayed") <=> (d > 10)

\* A run stored a row with a negative delay next to one at a threshold.
C1_Witness ==
    /\ \E i \in DOMAIN StoredFacts : StoredFacts[i].Payment_Delay_Days < 0
    /\ \E i \in DOMAIN StoredFacts :
          StoredFacts[i].Payment_Delay_Days \in {10, 11}

\* Raw rows the filter retains, by position.
Kept == {i \in DOMAIN bronze : bronze[i].Loan_Amount.k = "num"
                                 /\ bronze[i].Loan_Amount.v > 0}

FactOf(f, raw) ==
    /\ f.Customer_ID = raw.Customer_ID
    /\ f.Account_Number = raw.Account_Number
    /\ f.Loan_Amount = raw.Loan_Amount
    /\ f.Outstanding_Amount = raw.Outstanding_Amount
    /\ f.Payment_Delay_Days = raw.Payment_Delay_Days.v

\* The j-th retained raw row, counting from 1.
KeptAt(j) ==
    CHOOSE i \in Kept : Cardinality({h \in Kept : h <= i}) = j

\* C3: no row of any written table derives from a raw row with
\* loan_amount <= 0, and each written fact table has exactly one row per
\* raw row with loan_amount > 0.
C3_FilterInvariant ==
    /\ \A n \in DOMAIN silver.fact_loan_payment :
          LET rows == silver.fact_loan_payment[n].rows
          IN  /\ Len(rows) = Cardinality(Kept)
              /\ \A j \in DOMAIN rows :
                    /\ rows[j].Loan_Amount.v > 0
                    /\ FactOf(rows[j], bronze[KeptAt(j)])
    /\ \A j \in DOMAIN StoredCustomers :
          \E i \in Kept :
              /\ StoredCustomers[j].Customer_ID = bronze[i].Customer_ID
              /\ StoredCustomers[j].Region = bronze[i].Region
    /\ \A j \in DOMAIN StoredAccounts :
          \E i \in Kept :
              /\ StoredAccounts[j].Account_Number = bronze[i].Account_Number
              /\ StoredAccounts[j].Account_Type = bronze[i].Account_Type

\* A successful run over an input that has a row to drop first and a row
\* to keep after it.
C3_Witness ==
    /\ normResult.status = "Success"
    /\ Len(bronze) = 2
    /\ bronze[1].Loan_Amount.v <= 0
    /\ 2 \in Kept
    /\ Len(StoredFacts) = 1

\* C4: in each customer dimension table written no two rows share a
\* customer id, and in each account dimension table written no two rows
\* share an account number.
C4_UniqueKeys ==
    /\ \A n \in DOMAIN silver.dim_customer :
          LET rows == silver.dim_customer[n].rows
          IN  \A i, j \in DOMAIN rows :
                  rows[i].Customer_ID = rows[j].Customer_ID => i = j
    /\ \A n \in DOMAIN silver.dim_account :
          LET rows == silver.dim_account[n].rows
          IN  \A i, j \in DOMAIN rows :
                  rows[i].Account_Number = rows[j].Account_Number => i = j

\* A successful run over two retained rows of one customer and account
\* that differ in region.
C4_Witness ==
    /\ normResult.status = "Success"
    /\ Kept = {1, 2}
    /\ bronze[1].Customer_ID = bronze[2].Customer_ID
    /\ bronze[1].Account_Number = bronze[2].Account_Number
    /\ bronze[1].Region # bronze[2].Region
    /\ Len(StoredCustomers) = 1
    /\ Len(StoredAccounts) = 1

NumericCells(r) ==
    {r.Loan_Amount, r.Outstanding_Amount, r.EMI_Amount, r.Payment_Delay_Days,
     r.Customer_Score}

NothingWritten == silver = EmptySilver /\ catalog = {}

\* C6 as stated: if any value of loan_amount, outstanding_amount,
\* emi_amount, payment_delay_days or customer_score in the raw input is not
\* a number, the run aborts with a coercion error and none of the three
\* tables is written or registered.
C6_AsStated ==
    (normRuns >= 1
        /\ \E i \in DOMAIN bronze : \E c \in NumericCells(bronze[i]) :
               c.k # "num")
    => (normResult.error = "ValueError" /\ NothingWritten)

\* Values no coercion accepts: text that is no number in any of the five
\* columns, a missing value in one of the two integer columns.
Uncoercible(r) ==
    \/ \E c \in NumericCells(r) : c.k = "str"
    \/ r.Payment_Delay_Days.k = "nan"
    \/ r.Customer_Score.k = "nan"

\* C6 amended: if any of the five values is text that is no number, or
\* payment_delay_days or customer_score is missing, the run aborts with a
\* coercion error before any write, so none of the three tables is written
\* or registered; a missing loan_amount, outstanding_amount or emi_amount
\* alone raises no coercion error.
C6_CoercionAbort ==
    normRuns >= 1 =>
        /\ (\E i \in DOMAIN bronze : Uncoercible(bronze[i]))
              => /\ normResult.status = "Failed"
                 /\ normResult.error = "ValueError"
                 /\ normResult.io = <<"read_csv">>
                 /\ NothingWritten
        /\ (\A i \in DOMAIN bronze : ~Uncoercible(bronze[i]))
              => normResult.error # "ValueError"

\* A run aborted over an input whose first row is clean and kept and whose
\* second row has a cell no coercion accepts.
C6_Witness ==
    /\ normRuns = 1
    /\ normResult.error = "ValueError"
    /\ Len(bronze) = 2
    /\ 1 \in Kept
    /\ ~Uncoercible(bronze[1])
    /\ Uncoercible(bronze[2])
    /\ NothingWritten

\* Names the claim calls required for the Aggregator.
AggRequiredAsStated == AggEnvNames

DatabaseCalls == {"connect", "create_table", "copy", "commit"}

IoSet(io) == {io[i] : i \in DOMAIN io}

\* C7 as stated: for both components, if a required configuration value is
\* absent (bucket name, the prefixes, secret name, database host) the
\* component fails at startup, before any read or write.
C7_AsStated ==
    /\ (normRuns >= 1 /\ ~(NormRequired \subseteq normEnv))
          => (normResult.status = "Failed" /\ normResult.io = <<>>)
    /\ (aggRuns >= 1 /\ ~(AggRequiredAsStated \subseteq aggEnv))
          => (aggResult.status = "Failed" /\ aggResult.io = <<>>)

\* C7 amended: the Normalizer fails at startup, before any read or write,
\* if bucket name, bronze prefix or silver prefix is absent.  The
\* Aggregator never fails at startup: an absent bucket name fails its first
\* storage call, before anything is read or written; an absent silver or
\* gold prefix falls back to a default and fails nothing; an absent secret
\* name fails at secret retrieval, after the silver tables were read and
\* the gold artifact written, and before any database call.
C7_MissingConfig ==
    /\ (normRuns >= 1 /\ ~(NormRequired \subseteq normEnv))
          => /\ normResult.status = "Failed"
             /\ normResult.error = "KeyError"
             /\ normResult.io = <<>>
             /\ NothingWritten
    /\ (normRuns >= 1 /\ NormRequired \subseteq normEnv)
          => normResult.error # "KeyError"
    /\ aggResult.error # "KeyError"
    /\ (aggRuns >= 1 /\ "BUCKET_NAME" \notin aggEnv)
          => /\ aggResult.status = "Failed"
             /\ aggResult.io = <<>>
             /\ ~gold.present
             /\ ~rdsTable
    /\ (aggRuns >= 1 /\ "BUCKET_NAME" \in aggEnv
            /\ "DB_SECRET_NAME" \notin aggEnv)
          => /\ aggResult.status = "Failed"
             /\ IoSet(aggResult.io) \cap DatabaseCalls = {}
             /\ ~rdsTable
             /\ aggResult.error \in {"FileNotFoundError", "StorageWriteError",
                                     "ParamValidationError"}
             /\ aggResult.error = "ParamValidationError"
                   => /\ gold.present
                      /\ aggResult.io = <<"list:fact_loan_payment",
                                          "list:dim_customer",
                                          "put:region_summary">>
    /\ (aggRuns >= 1 /\ {"BUCKET_NAME", "DB_SECRET_NAME"} \subseteq aggEnv
            /\ aggResult.status = "Failed")
          => aggResult.error \in {"FileNotFoundError", "StorageWriteError",
                                  "DatabaseConnectionError", "BulkLoadError"}

\* Both components ran with a required name absent: the Normalizer
\* without its bronze prefix, the Aggregator without its bucket name.
C7_Witness ==
    /\ normRuns = 1
    /\ "BRONZE_PREFIX" \notin normEnv
    /\ normResult.error = "KeyError"
    /\ aggRuns = 1
    /\ "BUCKET_NAME" \notin aggEnv
    /\ aggResult.error = "ParamValidationError"

\* The tables the Aggregator reads: the rows of the parquet objects.
ReadFacts == ConcatRows(SelectSeq(silver.fact_loan_payment, IsParquet))
ReadCustomers == ConcatRows(SelectSeq(silver.dim_customer, IsParquet))

\* Pairs (fact row, customer row) the join matches, by position.
JoinPairs ==
    {p \in (DOMAIN ReadFacts) \X (DOMAIN ReadCustomers) :
        ReadFacts[p[1]].Customer_ID = ReadCustomers[p[2]].Customer_ID}

\* Fact rows no customer row matches.
Unmatched ==
    {i \in DOMAIN ReadFacts : \A j \in DOMAIN ReadCustomers :
        ReadFacts[i].Customer_ID # ReadCustomers[j].Customer_ID}

PairsOfRegion(g) == {p \in JoinPairs : ReadCustomers[p[2]].Region = g}

RECURSIVE LoanOfPairs(_)
LoanOfPairs(P) ==
    IF P = {} THEN 0
    ELSE LET p == CHOOSE q \in P : TRUE
         IN  ReadFacts[p[1]].Loan_Amount.v + LoanOfPairs(P \ {p})

RECURSIVE LoanOfFacts(_)
LoanOfFacts(I) ==
    IF I = {} THEN 0
    ELSE LET i == CHOOSE h \in I : TRUE
         IN  ReadFacts[i].Loan_Amount.v + LoanOfFacts(I \ {i})

SummaryHas(g, total) ==
    \E n \in DOMAIN gold.rows :
        gold.rows[n].region = g /\ gold.rows[n].total_loan_amount = total

RegionSet == {Regions[i] : i \in DOMAIN Regions}

\* C2 as stated: a region's total_loan_amount is the sum of loan_amount
\* over the fact rows whose joined customer has that region, and the fact
\* rows with no matching customer are counted under a null region bucket of
\* the summary.
C2_AsStated ==
    gold.present =>
        /\ \A g \in RegionSet :
              PairsOfRegion(g) # {} => SummaryHas(g, LoanOfPairs(PairsOfRegion(g)))
        /\ Unmatched # {} => SummaryHas(NullRegion, LoanOfFacts(Unmatched))

\* C2 amended: a region's total_loan_amount is the sum of loan_amount over
\* the rows of the left join whose customer row has that region (a fact row
\* counts once per customer row with its id); fact rows with no matching
\* customer, or whose customer has no region, are in no row of the summary,
\* which has no null region bucket.
C2_RegionTotals ==
    gold.present =>
        /\ \A g \in RegionSet :
              PairsOfRegion(g) # {} => SummaryHas(g, LoanOfPairs(PairsOfRegion(g)))
        /\ \A n \in DOMAIN gold.rows :
              /\ gold.rows[n].region \in RegionSet
              /\ PairsOfRegion(gold.rows[n].region) # {}
              /\ gold.rows[n].total_loan_amount =
                     LoanOfPairs(PairsOfRegion(gold.rows[n].region))
              /\ gold.rows[n].customer_count =
                     Cardinality(PairsOfRegion(gold.rows[n].region))
        /\ \A n, m \in DOMAIN gold.rows :
              gold.rows[n].region = gold.rows[m].region => n = m

\* A summary written from facts of which one has a customer with a region
\* and one has no customer at all.
C2_Witness ==
    /\ aggResult.status = "Success"
    /\ gold.present
    /\ gold.rows # <<>>
    /\ Unmatched # {}

NoParquet(objs) == \A i \in DOMAIN objs : ~objs[i].parquet

\* C5: if the fact_loan_payment prefix or the dim_customer prefix holds no
\* parquet object, the run fails with the not-found error, writes no gold
\* artifact, issues no statement to the relational store and returns no
\* Success.
C5_NotFound ==
    (aggRuns >= 1
        /\ (NoParquet(silver.fact_loan_payment) \/ NoParquet(silver.dim_customer)))
    => /\ aggResult.status = "Failed"
       /\ aggResult.error = "FileNotFoundError"
       /\ IoSet(aggResult.io) \subseteq
              {"list:fact_loan_payment", "list:dim_customer"}
       /\ ~gold.present
       /\ ~rdsTable
       /\ rdsRows = <<>>
       /\ aggOk = 0

\* A failed run over a store with fact rows and, under the customer prefix,
\* only an object that is no parquet file.
C5_Witness ==
    /\ aggRuns >= 1
    /\ ~NoParquet(silver.fact_loan_payment)
    /\ silver.dim_customer # <<>>
    /\ NoParquet(silver.dim_customer)
    /\ aggResult.error = "FileNotFoundError"

\* C8: in a run whose COPY fails, the create-if-absent statement was
\* committed before the copy started, the table exists afterwards and holds
\* exactly the rows it held before, and the run returns no Success; in a
\* run that succeeds the copy is committed after it completes.
C8_CopyAtomic ==
    [][(aggRuns' = aggRuns + 1) =>
          /\ (aggResult'.error = "BulkLoadError") =>
                /\ aggResult'.status = "Failed"
                /\ aggOk' = aggOk
                /\ rdsTable'
                /\ rdsRows' = rdsRows
                /\ aggResult'.io =
                      <<"list:fact_loan_payment", "list:dim_customer",
                        "put:region_summary", "get_secret_value", "connect",
                        "create_table", "commit", "copy">>
          /\ (aggResult'.status = "Success") =>
                /\ rdsTable'
                /\ Len(rdsRows') = Len(rdsRows) + aggResult'.record_count
                /\ SubSeq(aggResult'.io, 6, 9) =
                      <<"create_table", "commit", "copy", "commit">>]_vars

\* The first run failed in the COPY over a non-empty summary: the table
\* exists and is empty.
C8_Witness ==
    /\ aggRuns = 1
    /\ aggResult.error = "BulkLoadError"
    /\ gold.present
    /\ gold.rows # <<>>
    /\ rdsTable
    /\ rdsRows = <<>>

RdsRowsOf(g) == {i \in DOMAIN rdsRows : rdsRows[i].region = g}

\* Regions that reach the summary of the store as it is.
SummaryRegions == {g \in RegionSet : PairsOfRegion(g) # {}}

\* C10: after n >= 1 successful runs over an unchanged silver store the
\* gold artifact holds the rows of one run, one per region, the relational
\* table holds n rows per region, and the record_count a run returns is the
\* number of rows of its summary.
C10_OverwriteVsAppend ==
    aggOk >= 1 =>
        /\ gold.present
        /\ Len(gold.rows) = Cardinality(SummaryRegions)
        /\ {gold.rows[n].region : n \in DOMAIN gold.rows} = SummaryRegions
        /\ \A g \in SummaryRegions : Cardinality(RdsRowsOf(g)) = aggOk
        /\ Len(rdsRows) = aggOk * Len(gold.rows)
        /\ \A i \in DOMAIN rdsRows :
              \E n \in DOMAIN gold.rows : rdsRows[i] = gold.rows[n]
        /\ aggResult.status = "Success"
              => aggResult.record_count = Len(gold.rows)

\* Two successful runs over a store with two regions: two rows in the gold
\* artifact, four in the table, record_count 2.
C10_Witness ==
    /\ aggOk = 2
    /\ aggResult.status = "Success"
    /\ Len(gold.rows) = 2
    /\ Len(rdsRows) = 4
    /\ aggResult.record_count = 2

\* What one Normalizer run makes of the bronze input: the region a
\* retained row's customer gets is the region of that customer's first
\* retained row.
FirstKept(c) ==
    CHOOSE i \in Kept :
        /\ bronze[i].Customer_ID = c
        /\ \A h \in Kept : bronze[h].Customer_ID = c => i <= h

KeptOfRegion(g) ==
    {i \in Kept : bronze[FirstKept(bronze[i].Customer_ID)].Region = g}

RECURSIVE LoanOfRaw(_)
LoanOfRaw(I) ==
    IF I = {} THEN 0
    ELSE LET i == CHOOSE h \in I : TRUE
         IN  bronze[i].Loan_Amount.v + LoanOfRaw(I \ {i})

SameFact(r, q) ==
    /\ r.Customer_ID = q.Customer_ID
    /\ r.Account_Number = q.Account_Number
    /\ r.Loan_Amount = q.Loan_Amount
    /\ r.Outstanding_Amount = q.Outstanding_Amount
    /\ r.Payment_Delay_Days = q.Payment_Delay_Days

KeptCustomers == {bronze[i].Customer_ID : i \in Kept}

\* C9: when k >= 1 Normalizer runs, all successful, over the same bronze
\* input are followed by a successful Aggregator run, the stored customer
\* dimension holds k rows per customer id, the stored fact table k rows
\* per retained raw row, and each region's total_loan_amount and
\* customer_count are k * k times those of a single Normalizer run.
C9_AppendSquares ==
    [][(aggOk' = aggOk + 1 /\ normRuns = normOk /\ normOk >= 1) =>
          LET k == normOk
          IN  /\ \A c \in KeptCustomers :
                    Cardinality({j \in DOMAIN StoredCustomers :
                                    StoredCustomers[j].Customer_ID = c}) = k
              /\ Len(StoredCustomers) = k * Cardinality(KeptCustomers)
              /\ Len(StoredFacts) = k * Cardinality(Kept)
              /\ \A i \in Kept :
                    Cardinality({j \in DOMAIN StoredFacts :
                                    FactOf(StoredFacts[j], bronze[i])})
                        = k * Cardinality({h \in Kept :
                                      SameFact(bronze[h], bronze[i])})
              /\ \A g \in RegionSet :
                    KeptOfRegion(g) # {} =>
                        \E n \in DOMAIN gold'.rows :
                            /\ gold'.rows[n].region = g
                            /\ gold'.rows[n].total_loan_amount =
                                   k * k * LoanOfRaw(KeptOfRegion(g))
                            /\ gold'.rows[n].customer_count =
                                   k * k * Cardinality(KeptOfRegion(g))
              /\ Len(gold'.rows) =
                     Cardinality({g \in RegionSet : KeptOfRegion(g) # {}})]_vars

\* Two Normalizer runs over two retained rows of one customer, then a
\* successful Aggregator run: the region holds four times the total and
\* the count of a single run.
C9_Witness ==
    /\ normRuns = 2
    /\ normOk = 2
    /\ aggResult.status = "Success"
    /\ Cardinality(Kept) = 2
    /\ Len(StoredCustomers) = 2
    /\ Len(StoredFacts) = 4
    /\ \E n \in DOMAIN gold.rows :
          /\ gold.rows[n].customer_count = 4 * 2
          /\ gold.rows[n].total_loan_amount =
                 4 * LoanOfRaw(KeptOfRegion(gold.rows[n].region))

====
